---- MODULE Spec2Model ----
(***************************************************************************)
(* PicoWeather: the forecast classification and the fetch / repaint loop   *)
(* of src/micropython/main.py (Raspberry Pi Pico W) and of src/code.py     *)
(* (CircuitPython), with the OpenWeather client they call.                 *)
(*                                                                         *)
(* Python strings are sequences of one-character strings, so that lower(), *)
(* split(), indexing and += are computed character by character.  Python   *)
(* dictionaries are functions whose DOMAIN is the set of keys present.     *)
(* Temperatures are in tenths of a degree.                                 *)
(***************************************************************************)
EXTENDS Integers, Sequences, FiniteSets, TLC

(***************************************************************************)
(* String literals of the sources                                          *)
(***************************************************************************)
S_None == <<"N","o","n","e">>
S_Windy == <<"W","i","n","d","y">>
S_Tornado == <<"T","o","r","n","a","d","o">>
S_Foggy == <<"F","o","g","g","y">>
S_Clouds == <<"C","l","o","u","d","s">>
S_Partly_cloudy == <<"P","a","r","t","l","y"," ","c","l","o","u","d","y">>
S_Cloudy == <<"C","l","o","u","d","y">>
S_Sleet == <<"S","l","e","e","t">>
S_Drizzle == <<"D","r","i","z","z","l","e">>
S_Clear == <<"C","l","e","a","r">>
S_Rain == <<"R","a","i","n">>
S_Mist == <<"M","i","s","t">>
s_partlycloudy == <<"p","a","r","t","l","y","c","l","o","u","d","y">>
s_cloudy == <<"c","l","o","u","d","y">>
s_sleet == <<"s","l","e","e","t">>
s_lightrain == <<"l","i","g","h","t","r","a","i","n">>
s_night == <<"n","i","g","h","t">>
s_day == <<"d","a","y">>
s__night == <<" ","n","i","g","h","t">>
s__day == <<" ","d","a","y">>
s_clearday == <<"c","l","e","a","r","d","a","y">>
s_clearnight == <<"c","l","e","a","r","n","i","g","h","t">>
s_rain == <<"r","a","i","n">>
s_none == <<"n","o","n","e">>

(***************************************************************************)
(* str.lower(), str.split(".")[0] and s[-1]                                *)
(***************************************************************************)
UpperChars == <<"A","B","C","D","E","F","G","H","I","J","K","L","M",
                "N","O","P","Q","R","S","T","U","V","W","X","Y","Z">>
LowerChars == <<"a","b","c","d","e","f","g","h","i","j","k","l","m",
                "n","o","p","q","r","s","t","u","v","w","x","y","z">>

Swap(c, from, to) ==
    IF \E i \in 1..Len(from) : from[i] = c
    THEN to[CHOOSE i \in 1..Len(from) : from[i] = c]
    ELSE c

LowerChar(c) == Swap(c, UpperChars, LowerChars)

Lower(s) == [i \in 1..Len(s) |-> LowerChar(s[i])]

\* parts = s.split("."); parts[0]: the characters before the first "."
FirstPart(s) ==
    IF \E i \in 1..Len(s) : s[i] = "."
    THEN SubSeq(s, 1, (CHOOSE i \in 1..Len(s) :
                          s[i] = "." /\ \A j \in 1..(i - 1) : s[j] # ".") - 1)
    ELSE s

(***************************************************************************)
(* Dictionaries                                                            *)
(***************************************************************************)
EmptyDict == [k \in {} |-> 0]

Has(d, k) == k \in DOMAIN d

Put(d, k, v) == [x \in (DOMAIN d) \cup {k} |-> IF x = k THEN v ELSE d[x]]

(***************************************************************************)
(* setup_icons: the table from icon names to user-defined characters       *)
(***************************************************************************)
IconNames ==
    <<s_clearday, s_rain, s_lightrain, <<"s","n","o","w">>, s_sleet,
      <<"w","i","n","d">>, <<"f","o","g">>, s_cloudy, s_partlycloudy,
      <<"t","h","u","n","d","e","r","s","t","o","r","m">>,
      <<"t","o","r","n","a","d","o">>, s_clearnight, s_none>>

\* iconset[name] is (index in IconNames) - 1
IconKeys == {IconNames[i] : i \in 1..Len(IconNames)}

iconset(name) == (CHOOSE i \in 1..Len(IconNames) : IconNames[i] = name) - 1

(***************************************************************************)
(* The classification of one hourly forecast item, as the primary loop     *)
(* writes it into weather_data.  Each step takes and returns               *)
(* [raised, wd]: raised is TRUE when the Python code raises (KeyError,     *)
(* IndexError) at that step, and wd is weather_data as written so far.     *)
(***************************************************************************)
Ok(wd) == [raised |-> FALSE, wd |-> wd]

Raise(wd) == [raised |-> TRUE, wd |-> wd]

HasWeather(item) == Has(item, "weather") /\ Len(item["weather"]) > 0

\* wid = 0; if "weather" in item and len(item["weather"]) > 0: wid = ...["id"]
Wid(item) == IF HasWeather(item) THEN item["weather"][1]["id"] ELSE 0

\* weather_data["cast"] = item["weather"][0]["main"], or "None"
ReadCondition(wd, item) ==
    IF HasWeather(item)
    THEN IF ~Has(item["weather"][1], "main")
         THEN Raise(wd)
         ELSE IF ~Has(item["weather"][1], "id")
              THEN Raise(Put(wd, "cast", item["weather"][1]["main"]))
              ELSE Ok(Put(wd, "cast", item["weather"][1]["main"]))
    ELSE Ok(Put(wd, "cast", S_None))

\* The fog range starting one id late: 701 < wid < 770
AdjustNames_FogFrom702(wd, wid) ==
    LET a == IF wid = 771 THEN Put(wd, "cast", S_Windy) ELSE wd
        b == IF wid = 871 THEN Put(a, "cast", S_Tornado) ELSE a
        c == IF 701 < wid /\ wid < 770 THEN Put(b, "cast", S_Foggy) ELSE b
    IN  Put(c, "icon", Lower(c["cast"]))

\* The fog range written with the bound 700: 700 < wid < 770
AdjustNames_FogFrom701(wd, wid) ==
    LET a == IF wid = 771 THEN Put(wd, "cast", S_Windy) ELSE wd
        b == IF wid = 871 THEN Put(a, "cast", S_Tornado) ELSE a
        c == IF 700 < wid /\ wid < 770 THEN Put(b, "cast", S_Foggy) ELSE b
    IN  Put(c, "icon", Lower(c["cast"]))

\* The fog range running over the id of Windy: 699 < wid < 772
AdjustNames_FogTo771(wd, wid) ==
    LET a == IF wid = 771 THEN Put(wd, "cast", S_Windy) ELSE wd
        b == IF wid = 871 THEN Put(a, "cast", S_Tornado) ELSE a
        c == IF 699 < wid /\ wid < 772 THEN Put(b, "cast", S_Foggy) ELSE b
    IN  Put(c, "icon", Lower(c["cast"]))

\* The icon key written only while weather_data has none
AdjustNames_KeepIcon(wd, wid) ==
    LET a == IF wid = 771 THEN Put(wd, "cast", S_Windy) ELSE wd
        b == IF wid = 871 THEN Put(a, "cast", S_Tornado) ELSE a
        c == IF 699 < wid /\ wid < 770 THEN Put(b, "cast", S_Foggy) ELSE b
    IN  IF Has(c, "icon") THEN c ELSE Put(c, "icon", Lower(c["cast"]))

\* The icon key taken from the label as it is, not lowercased
AdjustNames_NoLower(wd, wid) ==
    LET a == IF wid = 771 THEN Put(wd, "cast", S_Windy) ELSE wd
        b == IF wid = 871 THEN Put(a, "cast", S_Tornado) ELSE a
        c == IF 699 < wid /\ wid < 770 THEN Put(b, "cast", S_Foggy) ELSE b
    IN  Put(c, "icon", c["cast"])

\* Adjust troublesome icon names, then icon = cast.lower()
AdjustNames(wd, wid) ==
    LET a == IF wid = 771 THEN Put(wd, "cast", S_Windy) ELSE wd
        b == IF wid = 871 THEN Put(a, "cast", S_Tornado) ELSE a
        c == IF 699 < wid /\ wid < 770 THEN Put(b, "cast", S_Foggy) ELSE b
    IN  Put(c, "icon", Lower(c["cast"]))

\* The clouds rule with its boundary one id late: wid <= 804
CloudsRule_Below805(wd, wid) ==
    IF wd["cast"] = S_Clouds
    THEN IF wid <= 804
         THEN Put(Put(wd, "icon", s_partlycloudy), "cast", S_Partly_cloudy)
         ELSE Put(Put(wd, "icon", s_cloudy), "cast", S_Cloudy)
    ELSE wd

CloudsRule(wd, wid) ==
    IF wd["cast"] = S_Clouds
    THEN IF wid < 804
         THEN Put(Put(wd, "icon", s_partlycloudy), "cast", S_Partly_cloudy)
         ELSE Put(Put(wd, "icon", s_cloudy), "cast", S_Cloudy)
    ELSE wd

\* The sleet range ending one id early: 602 < wid < 619
SleetRule_Below619(wd, wid) ==
    IF 602 < wid /\ wid < 619
    THEN Put(Put(wd, "icon", s_sleet), "cast", S_Sleet)
    ELSE wd

SleetRule(wd, wid) ==
    IF 602 < wid /\ wid < 620
    THEN Put(Put(wd, "icon", s_sleet), "cast", S_Sleet)
    ELSE wd

DrizzleRule(wd) ==
    IF wd["cast"] = S_Drizzle THEN Put(wd, "cast", s_lightrain) ELSE wd

\* The day and night suffixes swapped
ClearRule_Reversed(wd, item) ==
    IF wd["cast"] = S_Clear
    THEN IF ~Has(item["weather"][1], "icon")
         THEN Raise(wd)
         ELSE LET part0 == FirstPart(item["weather"][1]["icon"])
              IN  IF Len(part0) = 0
                  THEN Raise(wd)
                  ELSE IF part0[Len(part0)] = "n"
                       THEN Ok(Put(Put(wd, "icon", wd["icon"] \o s_day),
                                   "cast", wd["cast"] \o s__day))
                       ELSE Ok(Put(Put(wd, "icon", wd["icon"] \o s_night),
                                   "cast", wd["cast"] \o s__night))
    ELSE Ok(wd)

\* Set clear icon by time of day
ClearRule(wd, item) ==
    IF wd["cast"] = S_Clear
    THEN IF ~Has(item["weather"][1], "icon")
         THEN Raise(wd)
         ELSE LET part0 == FirstPart(item["weather"][1]["icon"])
              IN  IF Len(part0) = 0
                  THEN Raise(wd)
                  ELSE IF part0[Len(part0)] = "n"
                       THEN Ok(Put(Put(wd, "icon", wd["icon"] \o s_night),
                                   "cast", wd["cast"] \o s__night))
                       ELSE Ok(Put(Put(wd, "icon", wd["icon"] \o s_day),
                                   "cast", wd["cast"] \o s__day))
    ELSE Ok(wd)

\* weather_data["temp"] = item["feels_like"]
StoreTemp(wd, item) ==
    IF Has(item, "feels_like") THEN Ok(Put(wd, "temp", item["feels_like"]))
    ELSE Raise(wd)

Classify(wd, item) ==
    LET r1 == ReadCondition(wd, item)
    IN  IF r1.raised THEN r1
        ELSE LET wid == Wid(item)
                 r2 == ClearRule(DrizzleRule(SleetRule(CloudsRule(
                           AdjustNames(r1.wd, wid), wid), wid)), item)
             IN  IF r2.raised THEN r2 ELSE StoreTemp(r2.wd, item)

(***************************************************************************)
(* Program constants                                                       *)
(***************************************************************************)
DISPLAY_PERIOD_US == 20 * 1000000

FORECAST_PERIOD_US == 15 * 60 * 1000000

\* the literal of "open_weather_call_count < 990"
CALL_CAP == 990

(***************************************************************************)
(* Bounds of the model                                                     *)
(***************************************************************************)
\* days of the month the real-time clock runs through
MaxDay == 2

\* the clock is read up to TickSlack microseconds past the forecast period
TickSlack == 1

\* Spec follows the loop until this many forecasts have been tallied
MaxTallied == 2

\* condition ids lie up to IdSlack around the ids the rules name
IdSlack == 1

\* monotonic_ns() is read up to NsSlack nanoseconds past a whole second
NsSlack == 1

(***************************************************************************)
(* The tick counter.  The loop uses ticks_us() as a monotonic clock and    *)
(* reads it only through us_tick - last_forecast and                       *)
(* us_tick - last_display, which it compares with the two periods.  The    *)
(* model therefore keeps the three values relative to a moving origin:     *)
(* each iteration first moves the origin so that the previous reading is   *)
(* Epoch, then reads Epoch + (the microseconds passed since).  A stamp     *)
(* older than Epoch stays at 0: its age is then above both periods, as it  *)
(* is in the program.                                                      *)
(***************************************************************************)
Epoch == FORECAST_PERIOD_US + 1

Max(a, b) == IF a >= b THEN a ELSE b

\* a tick value of the previous iteration, seen from the moved origin
Rebase(t, previous) == Max(t - (previous - Epoch), 0)

\* microseconds between two readings of the clock
Elapsed ==
    {DISPLAY_PERIOD_US, FORECAST_PERIOD_US}
      \cup {FORECAST_PERIOD_US + k : k \in 1..TickSlack}

\* the loop under a steady cadence, one reading per forecast period
ElapsedCap == {FORECAST_PERIOD_US + 1}

(***************************************************************************)
(* Inputs                                                                  *)
(***************************************************************************)
Days == 1..MaxDay

Condition(id, main, icon) == [id |-> id, main |-> main, icon |-> icon]

Hourly(conditions, feels_like) ==
    [weather |-> conditions, feels_like |-> feels_like]

ItemRain == Hourly(<<Condition(500, S_Rain, <<"1","0","d">>)>>, 142)

ItemClearNight == Hourly(<<Condition(800, S_Clear, <<"0","1","n">>)>>, -35)

\* what urequests.get() does: raise, or return a response
TransportError == [raises |-> TRUE]

Response(status_code, decodable, body) ==
    [raises |-> FALSE, status_code |-> status_code,
     decodable |-> decodable, body |-> body]

Forecast(items) == Response(200, TRUE, [hourly |-> items])

LoopResponses ==
    {TransportError, Response(401, TRUE, EmptyDict),
     Response(200, FALSE, EmptyDict), Response(200, TRUE, EmptyDict),
     Forecast(<<ItemRain>>), Forecast(<<ItemRain, ItemClearNight>>)}

CapResponses ==
    {Response(401, TRUE, EmptyDict), Forecast(<<ItemRain, ItemRain>>)}

\* the API does not answer with a forecast
OutageResponses ==
    {TransportError, Response(401, TRUE, EmptyDict),
     Response(200, FALSE, EmptyDict)}

\* condition ids: 0, a plain one, and those around the ids the rules name
RuleIds == {602, 620, 699, 770, 771, 804, 871}

ConditionIds ==
    {0, 500, 701, 741}
      \cup {id + k : id \in RuleIds, k \in (0 - IdSlack)..IdSlack}

ConditionMains ==
    {<<"T","h","u","n","d","e","r","s","t","o","r","m">>, S_Drizzle, S_Rain,
     <<"S","n","o","w">>, S_Mist, <<"S","q","u","a","l","l">>, S_Tornado,
     S_Clear, S_Clouds}

IconHints ==
    {<<"0","1","d">>, <<"0","1","n">>, <<"0","1","n",".","p","n","g">>,
     <<"5","0","x">>}

FeelsLike == {142, -35}

\* hourly items with one condition, and the item without a weather entry
ClassifyItems ==
    {Hourly(<<Condition(id, main, icon)>>, temp) :
        id \in ConditionIds, main \in ConditionMains,
        icon \in IconHints, temp \in FeelsLike}
      \cup {[feels_like |-> temp] : temp \in FeelsLike}
      \cup {Hourly(<<>>, temp) : temp \in FeelsLike}

\* hourly items of a decoded forecast with a field left out: the condition's
\* icon, its main, its id, and the item's feels_like
PartialItems ==
    {Hourly(<<[id |-> 800, main |-> S_Clear]>>, 142),
     Hourly(<<[id |-> 500, main |-> S_Rain]>>, 142),
     Hourly(<<[id |-> 500, icon |-> <<"1","0","d">>]>>, 142),
     Hourly(<<[main |-> S_Rain, icon |-> <<"1","0","d">>]>>, 142),
     Hourly(<<Condition(800, S_Clear, <<".","p","n","g">>)>>, 142),
     [weather |-> <<Condition(500, S_Rain, <<"1","0","d">>)>>]}

\* decoded forecasts with an hourly array: two items, or too few of them
ClassifyResponses ==
    {Forecast(<<ItemRain, i>>) : i \in ClassifyItems \cup PartialItems}
      \cup {Forecast(<<ItemRain>>), Forecast(<<>>)}

\* secrets.py: co-ordinates in degrees
GoodSecrets == [lat |-> 51, lng |-> 0]

\* secrets.py with co-ordinates at and beyond the ends of their ranges, with
\* the value the class takes for "not given", and with none at all
SecretsChoices ==
    {GoodSecrets, EmptyDict, [lat |-> 90, lng |-> 180],
     [lat |-> -90, lng |-> -180], [lat |-> 91, lng |-> 0],
     [lat |-> -91, lng |-> 0], [lat |-> 51, lng |-> 181],
     [lat |-> 51, lng |-> -181], [lat |-> 999, lng |-> 0],
     [lat |-> 51, lng |-> 999]}

\* what the API sends back when it is reached
CoordResponses ==
    {Response(401, TRUE, EmptyDict), Response(200, FALSE, EmptyDict),
     Forecast(<<ItemRain, ItemClearNight>>)}

(***************************************************************************)
(* OpenWeather (src/micropython/openweather.py)                            *)
(***************************************************************************)
_check_coords(longitude, latitude) ==
    ~ (longitude = 999 \/ latitude = 999)
    /\ ~ (latitude > 90 \/ latitude < -90)
    /\ ~ (longitude > 180 \/ longitude < -180)

_process_response(response) ==
    IF response.status_code # 200
    THEN [err |-> <<"Unable to retrieve forecast data", response.status_code>>]
    ELSE IF ~response.decodable
         THEN [err |-> <<"Unable to decode data received from Open Weather">>]
         ELSE [data |-> Put(response.body, "statuscode", response.status_code)]

\* [raised, value]: raised when requests.get() raises
_send_request(response) ==
    IF response.raises THEN [raised |-> TRUE, value |-> EmptyDict]
    ELSE [raised |-> FALSE, value |-> _process_response(response)]

request_forecast(latitude, longitude, response) ==
    IF ~_check_coords(longitude, latitude)
    THEN [raised |-> FALSE, value |-> [error |-> "Co-ordinate error"]]
    ELSE _send_request(response)

(***************************************************************************)
(* OpenWeather: the setters of the request options.  A call returns        *)
(* [self, returned]: the instance afterwards, and "self" or "None" for     *)
(* what the method returned.  Language codes are sequences of characters;  *)
(* excludes is the sequence of the items and the commas between them.      *)
(***************************************************************************)
\* longest list passed to exclude()
MaxList == 3

lang_types ==
    {<<"a","f">>, <<"a","l">>, <<"a","r">>, <<"a","z">>, <<"b","g">>,
     <<"c","a">>, <<"c","z">>, <<"d","a">>, <<"d","e">>, <<"e","l">>,
     <<"e","n">>, <<"e","u">>, <<"f","a">>, <<"f","i">>, <<"f","r">>,
     <<"g","l">>, <<"h","e">>, <<"h","i">>, <<"h","r">>, <<"h","u">>,
     <<"i","d">>, <<"i","t">>, <<"j","a">>, <<"k","r">>, <<"l","a">>,
     <<"l","t">>, <<"m","k">>, <<"n","o">>, <<"n","l">>, <<"p","l">>,
     <<"p","t">>, <<"p","t","_","b","r">>, <<"r","o">>, <<"r","u">>,
     <<"s","e">>, <<"s","v">>, <<"s","k">>, <<"s","l">>, <<"s","p">>,
     <<"e","s">>, <<"s","r">>, <<"t","h">>, <<"t","r">>, <<"u","a">>,
     <<"u","k">>, <<"v","i">>, <<"z","h","_","c","n">>,
     <<"z","h","_","t","w">>, <<"z","u">>}

s_en == <<"e","n">>

exclude_types == <<"current", "minutely", "hourly", "daily", "alerts">>

\* src/micropython/openweather.py: self.lang = language and return self are
\* inside the "if not language in lang_types" block
set_language(self, language) ==
    IF Lower(language) \notin lang_types
    THEN [self |-> [self EXCEPT !.lang = s_en], returned |-> "self"]
    ELSE [self |-> self, returned |-> "None"]

\* src/circuitpython/lib/openweather.py
circuit_set_language(self, language) ==
    LET lang == IF Lower(language) \notin lang_types THEN s_en
                ELSE Lower(language)
    IN  [self |-> [self EXCEPT !.lang = lang], returned |-> "self"]

\* for exclude_type in exclude_types: if item == <comparand>:
\*     matches.append(item)
RECURSIVE AppendPerType(_, _, _)
AppendPerType(matches, item, comparands) ==
    IF comparands = <<>> THEN matches
    ELSE AppendPerType(IF item = Head(comparands) THEN Append(matches, item)
                       ELSE matches,
                       item, Tail(comparands))

\* for item in list: ...
RECURSIVE Matches(_, _, _)
Matches(matches, list, comparands) ==
    IF list = <<>> THEN matches
    ELSE Matches(AppendPerType(matches, Head(list), comparands),
                 Tail(list), comparands)

\* for item in matches: self.excludes += (item + ",")
RECURSIVE WithCommas(_)
WithCommas(matches) ==
    IF matches = <<>> THEN <<>>
    ELSE <<Head(matches), ",">> \o WithCommas(Tail(matches))

\* self.excludes = self.excludes[0: len(self.excludes) - 1]
DropLast(str) == IF str = <<>> THEN str ELSE SubSeq(str, 1, Len(str) - 1)

\* exclude(), its inner loop comparing the item with the comparands in turn
ExcludeBy(self, list, comparands) ==
    LET matches == Matches(<<>>, list, comparands)
    IN  IF matches = <<>> THEN [self |-> self, returned |-> "self"]
        ELSE [self |-> [self EXCEPT !.excludes = DropLast(WithCommas(matches))],
              returned |-> "self"]

\* the builtin that "type" names in "if item == type": no string equals it
BuiltinType == "<class 'type'>"

\* src/micropython/openweather.py: every pass of the inner loop compares
\* the item with type
exclude(self, list) ==
    ExcludeBy(self, list, [n \in DOMAIN exclude_types |-> BuiltinType])

\* src/circuitpython/lib/openweather.py: if item == exclude_type
circuit_exclude(self, exclude_list) ==
    ExcludeBy(self, exclude_list, exclude_types)

\* opts of _add_options(): what a request URL carries of lang and excludes
_add_options(self) ==
    [lang |-> IF self.lang # <<>> THEN <<self.lang>> ELSE <<>>,
     exclude |-> IF self.excludes # <<>> THEN <<self.excludes>> ELSE <<>>]

\* Inputs of the setters
Languages ==
    {<<"d","e">>, <<"D","E">>, <<"P","t","_","B","R">>, s_en, <<"x","x">>,
     <<>>, <<"Z","u">>, <<"e","n","g">>}

ExcludeItems == {"current", "hourly", "daily", "Hourly", "bogus"}

RECURSIVE ListsUpTo(_)
ListsUpTo(n) ==
    IF n = 0 THEN {<<>>}
    ELSE LET shorter == ListsUpTo(n - 1)
         IN  shorter \cup {Append(l, i) : l \in shorter, i \in ExcludeItems}

ExcludeLists == ListsUpTo(MaxList)

(***************************************************************************)
(* State of src/micropython/main.py (and of src/code.py, which has ns_tick *)
(* in place of us_tick, last_forecast and last_display)                    *)
(***************************************************************************)
VARIABLES
    pc,                      \* "loop", or "crashed" once an exception escaped
    secrets,                 \* secrets.py
    open_weather,            \* the OpenWeather instance: lang, excludes
    last_call,               \* the last call of one of its setters
    esp32,                   \* src/code.py: the ESP32 interface and its last do_connect
    frame,                   \* src/code.py: the local variables of app_intro
    pixels,                  \* the pixels lit in the matrix buffer, <<x, y>>
    plots,                   \* the calls of matrix.plot so far, in order
    open_weather_call_count,
    weather_data,
    saved_data,              \* <<>> is None, <<d>> is the dictionary d
    do_show,
    is_rtc_set,
    last_check,              \* localtime()[2], the day of the month
    last_forecast,
    last_display,
    us_tick,                 \* the loop's reading of ticks_us()
    ns_tick,                 \* src/code.py: the reading of monotonic_ns()
    item,                    \* the hourly item the loop classified last
    matrix,                  \* what the LED matrix shows
    rtc_day,                 \* the real-time clock's day of the month
    fetch_result,            \* what the last iteration did about the forecast
    repainted,               \* whether the last iteration called display_weather
    last_ok,                 \* the tick of the last forecast that succeeded
    ns_last_ok,              \* the same in src/code.py, a monotonic_ns() value
    calls_today              \* request_forecast calls since midnight

vars == <<pc, secrets, open_weather, last_call, esp32, frame, pixels, plots,
          open_weather_call_count,
          weather_data, saved_data, do_show, is_rtc_set, last_check, last_forecast, last_display,
          us_tick, ns_tick, item, matrix, rtc_day, fetch_result, repainted,
          last_ok, ns_last_ok, calls_today>>

None == <<>>

Blank == [cast |-> <<>>, temp |-> 0, icon |-> -1]

UpperChar(c) == Swap(c, LowerChars, UpperChars)

\* s[0:1].upper() + s[1:]
Capitalise(s) == [i \in 1..Len(s) |-> IF i = 1 THEN UpperChar(s[i]) ELSE s[i]]

\* the lookup without its except clause: a key that is not in the table
\* draws no glyph
IconFor_NoFallback(display_data) ==
    IF Has(display_data, "icon") /\ display_data["icon"] \in IconKeys
    THEN iconset(display_data["icon"])
    ELSE -1

\* try: icon = iconset[display_data["icon"]] except: icon = iconset["none"]
IconFor(display_data) ==
    IF Has(display_data, "icon") /\ display_data["icon"] \in IconKeys
    THEN iconset(display_data["icon"])
    ELSE iconset(s_none)

\* display_weather() preferring the saved forecast to the one passed in
display_weather_SavedFirst(display, saved, display_data) ==
    LET data == IF saved # None THEN saved[1] ELSE display_data
    IN  IF DOMAIN display_data = {} /\ saved = None
        THEN [saved |-> saved, shown |-> display]
        ELSE [saved |-> <<data>>,
              shown |-> [cast |-> Capitalise(data["cast"]),
                         temp |-> data["temp"], icon |-> IconFor(data)]]

\* display_weather() drawing the "none" icon when it has no data at all
display_weather_NoneIcon(display, saved, display_data) ==
    LET data == IF DOMAIN display_data = {} THEN saved[1] ELSE display_data
    IN  IF DOMAIN display_data = {} /\ saved = None
        THEN [saved |-> saved,
              shown |-> [cast |-> <<>>, temp |-> 0, icon |-> iconset(s_none)]]
        ELSE [saved |-> <<data>>,
              shown |-> [cast |-> Capitalise(data["cast"]),
                         temp |-> data["temp"], icon |-> IconFor(data)]]

\* display_weather(display, display_data): [saved, shown] afterwards
display_weather(display, saved, display_data) ==
    LET data == IF DOMAIN display_data = {} THEN saved[1] ELSE display_data
    IN  IF DOMAIN display_data = {} /\ saved = None
        THEN [saved |-> saved, shown |-> display]
        ELSE [saved |-> <<data>>,
              shown |-> [cast |-> Capitalise(data["cast"]),
                         temp |-> data["temp"], icon |-> IconFor(data)]]

\* a reading of monotonic_ns() is s * 10^9 + ns
Ns(s, ns) == [s |-> s, ns |-> ns]

\* the OpenWeather class attributes: lang = "en", excludes = None
NewOpenWeather == [lang |-> <<"e","n">>, excludes |-> <<>>]

\* The runtime start, with secrets.py holding secret_values and the matrix
\* buffer holding the pixels lit.  frame is app_intro's local variables
\* before its loop, with i of range(0, 64).
Boot(secret_values, lit) ==
    /\ pc = "loop"
    /\ secrets = secret_values
    /\ open_weather = NewOpenWeather
    /\ last_call = [op |-> "none"]
    /\ esp32 = [is_connected |-> FALSE, attempts |-> 0]
    /\ frame = [x |-> 7, y |-> 0, dx |-> 0, dy |-> 1, mx |-> 6, my |-> 7,
                nx |-> 0, ny |-> 0, i |-> 0]
    /\ pixels = lit
    /\ plots = <<>>
    /\ open_weather_call_count = 0
    /\ weather_data = EmptyDict
    /\ saved_data = None
    /\ do_show = TRUE
    /\ is_rtc_set = FALSE
    /\ rtc_day \in Days
    /\ last_check = rtc_day
    /\ last_forecast = Epoch
    /\ last_display = last_forecast
    /\ us_tick = last_forecast
    /\ ns_tick = Ns(0, 0)
    /\ item = EmptyDict
    /\ matrix = Blank
    /\ fetch_result = "idle"
    /\ repainted = FALSE
    /\ last_ok = Epoch
    /\ ns_last_ok = Ns(0, 0)
    /\ calls_today = 0

\* display.clear().draw() in setup_display: no pixel is lit
Start(secret_values) == Boot(secret_values, {})

Init == Start(GoodSecrets)

(***************************************************************************)
(* src/micropython/main.py: the primary loop, one iteration                *)
(***************************************************************************)
\* A gate that lets a fetch through with the tally already at the cap
FetchDue_CapInclusive(tick, forecast_tick, show, count) ==
    (tick - forecast_tick > FORECAST_PERIOD_US \/ show) /\ count <= CALL_CAP

\* A gate that opens when exactly one period has elapsed
FetchDue_AtPeriod(tick, forecast_tick, show, count) ==
    (tick - forecast_tick >= FORECAST_PERIOD_US \/ show) /\ count < CALL_CAP

\* (us_tick - last_forecast > FORECAST_PERIOD_US or do_show)
\*     and open_weather_call_count < 990
FetchDue(tick, forecast_tick, show, count) ==
    (tick - forecast_tick > FORECAST_PERIOD_US \/ show) /\ count < CALL_CAP

\* A display condition that looks at the timer alone
DisplayDue_TimerOnly(tick, display_tick, show) ==
    tick - display_tick > DISPLAY_PERIOD_US

\* A display condition that opens when exactly one period has elapsed
DisplayDue_AtPeriod(tick, display_tick, show) ==
    (tick - display_tick >= DISPLAY_PERIOD_US) \/ show

\* (us_tick - last_display > DISPLAY_PERIOD_US) or do_show
DisplayDue(tick, display_tick, show) ==
    (tick - display_tick > DISPLAY_PERIOD_US) \/ show

\* A tally that zeroes on a new day first and then counts the fetch
Tally_ResetFirst(count, today, checked) ==
    IF today # checked THEN 1 ELSE count + 1

\* A tally with the day test the wrong way round
Tally_ResetSameDay(count, today, checked) ==
    IF today = checked THEN 0 ELSE count + 1

\* Update the tally, or zero on a new day
Tally(count, today, checked) == IF today # checked THEN 0 ELSE count + 1

\* A forecast step that tallies the calls that got no forecast
Kept_CountsAttempt(result) ==
    [result |-> result, wd |-> weather_data, item |-> item,
     count |-> IF result \in {"err", "no_data", "no_hourly"}
               THEN open_weather_call_count + 1
               ELSE open_weather_call_count,
     check |-> last_check,
     forecast |-> Rebase(last_forecast, us_tick), show |-> do_show,
     rtc_set |-> is_rtc_set, day |-> rtc_day]

\* The forecast step left the variables it writes as they were
Kept(result) ==
    [result |-> result, wd |-> weather_data, item |-> item,
     count |-> open_weather_call_count, check |-> last_check,
     forecast |-> Rebase(last_forecast, us_tick), show |-> do_show,
     rtc_set |-> is_rtc_set, day |-> rtc_day]

\* elif "data" in forecast and "hourly" in forecast["data"]: the forecast
\* is classified and tallied.  The item is hourly[index], counted from 1;
\* rtc_set and day are is_rtc_set and the clock's day as the iteration found
\* them, and ntp is what set_rtc() gets (0: nothing, or it is not called)
TakeForecast(tick, data, index, rtc_set, day, ntp) ==
    IF Len(data["hourly"]) < index THEN Kept("raised")
    ELSE LET c == Classify(weather_data, data["hourly"][index])
             rtc_ok == ~rtc_set /\ ntp \in Days
             today == IF rtc_ok THEN ntp ELSE day
         IN  IF c.raised
             THEN [Kept("raised") EXCEPT !.wd = c.wd,
                                         !.item = data["hourly"][index]]
             ELSE [result |-> "ok", wd |-> c.wd,
                   item |-> data["hourly"][index],
                   count |-> Tally(open_weather_call_count, today, last_check),
                   check |-> today, forecast |-> tick, show |-> TRUE,
                   rtc_set |-> rtc_set \/ rtc_ok, day |-> today]

\* forecast = open_weather.request_forecast(lat, lng) and what follows it
Requested(tick, response, lat, lng, index, rtc_set, day, ntp) ==
    LET call == request_forecast(lat, lng, response)
        forecast == call.value
    IN  IF call.raised THEN Kept("raised")
        ELSE IF Has(forecast, "err") THEN Kept("err")
        ELSE IF ~Has(forecast, "data") THEN Kept("no_data")
        ELSE IF ~Has(forecast["data"], "hourly") THEN Kept("no_hourly")
        ELSE TakeForecast(tick, forecast["data"], index, rtc_set, day, ntp)

\* The forecast step: how it ended and the values of the variables it writes
ForecastStep(tick, response, ntp) ==
    LET lat == IF Has(secrets, "lat") THEN secrets["lat"] ELSE 0
        lng == IF Has(secrets, "lng") THEN secrets["lng"] ELSE 0
    IN  IF ~FetchDue(tick, Rebase(last_forecast, us_tick), do_show,
                     open_weather_call_count)
        THEN Kept("none")
        ELSE Requested(tick, response, lat, lng, 2, is_rtc_set, rtc_day, ntp)

\* the iteration called request_forecast
Fetched(result) == result \in {"raised", "err", "no_data", "no_hourly", "ok"}

\* the iteration called request_forecast and got no forecast out of it
Failed(result) == result \in {"err", "no_data", "no_hourly"}

\* do_connect() failed: sleep(0.5); continue
Offline ==
    /\ pc = "loop"
    /\ fetch_result' = "offline"
    /\ repainted' = FALSE
    /\ UNCHANGED <<pc, secrets, open_weather, last_call, esp32, frame, pixels, plots,
                   open_weather_call_count, weather_data,
                   saved_data, do_show, is_rtc_set, last_check, last_forecast,
                   last_display, us_tick, ns_tick, item, matrix, rtc_day,
                   last_ok, ns_last_ok>>

\* wlan.isconnected(), or do_connect() succeeded: the rest of the iteration
PrimaryLoop(elapsed, response, ntp) ==
    /\ pc = "loop"
    /\ \E f \in {ForecastStep(Epoch + elapsed, response, ntp)} :
        LET tick == Epoch + elapsed
            crashed == f.result = "raised"
            shown_at == Rebase(last_display, us_tick)
            due == ~crashed /\ DisplayDue(tick, shown_at, f.show)
            d == display_weather(matrix, saved_data, f.wd)
        IN  /\ pc' = IF crashed THEN "crashed" ELSE "loop"
            /\ us_tick' = tick
            /\ fetch_result' = f.result
            /\ weather_data' = f.wd
            /\ item' = f.item
            /\ open_weather_call_count' = f.count
            /\ last_check' = f.check
            /\ last_forecast' = f.forecast
            /\ is_rtc_set' = f.rtc_set
            /\ rtc_day' = f.day
            /\ repainted' = due
            /\ saved_data' = IF due THEN d.saved ELSE saved_data
            /\ matrix' = IF due THEN d.shown ELSE matrix
            /\ last_display' = IF due THEN tick ELSE shown_at
            /\ do_show' = IF due THEN FALSE ELSE f.show
            /\ last_ok' = IF f.result = "ok" THEN tick
                          ELSE Rebase(last_ok, us_tick)
            /\ UNCHANGED <<secrets, open_weather, last_call, esp32, frame, pixels,
                           plots, ns_tick, ns_last_ok>>

\* the real-time clock passes midnight
Midnight ==
    /\ pc = "loop"
    /\ rtc_day' = (rtc_day % MaxDay) + 1
    /\ fetch_result' = "idle"
    /\ repainted' = FALSE
    /\ UNCHANGED <<pc, secrets, open_weather, last_call, esp32, frame, pixels, plots,
                   open_weather_call_count, weather_data,
                   saved_data, do_show, is_rtc_set, last_check, last_forecast,
                   last_display, us_tick, ns_tick, item, matrix, last_ok,
                   ns_last_ok>>

\* set_rtc() is called only while the clock is not set
NtpReplies == IF is_rtc_set THEN {0} ELSE Days \cup {0}

Iteration ==
    \E elapsed \in Elapsed, response \in LoopResponses, ntp \in NtpReplies :
        PrimaryLoop(elapsed, response, ntp)

Next ==
    /\ open_weather_call_count < MaxTallied
    /\ \/ Offline /\ UNCHANGED calls_today
       \/ Iteration /\ UNCHANGED calls_today
       \/ Midnight /\ UNCHANGED calls_today

Spec == Init /\ [][Next]_vars

(***************************************************************************)
(* The loop followed up to the cap, under a steady cadence                 *)
(***************************************************************************)
IterationCap ==
    /\ \E elapsed \in ElapsedCap, response \in CapResponses, ntp \in NtpReplies :
          PrimaryLoop(elapsed, response, ntp)
    /\ UNCHANGED calls_today

NextCap ==
    \/ Offline /\ UNCHANGED calls_today
    \/ IterationCap
    \/ Midnight /\ UNCHANGED calls_today

SpecCap == Init /\ [][NextCap]_vars

(***************************************************************************)
(* The loop during an outage of the API, with the calls of the day counted *)
(***************************************************************************)
IterationOutage ==
    \E elapsed \in ElapsedCap, response \in OutageResponses :
        PrimaryLoop(elapsed, response, 0)

NextOutage ==
    /\ calls_today <= CALL_CAP
    /\ \/ Offline /\ UNCHANGED calls_today
       \/ /\ IterationOutage
          /\ calls_today' = IF Fetched(fetch_result') THEN calls_today + 1
                            ELSE calls_today
       \/ Midnight /\ calls_today' = 0

SpecOutage == Init /\ [][NextOutage]_vars

(***************************************************************************)
(* The first forecast, over the hourly items                               *)
(***************************************************************************)
IterationClassify ==
    \E elapsed \in Elapsed, response \in ClassifyResponses, ntp \in NtpReplies :
        PrimaryLoop(elapsed, response, ntp)

NextClassify ==
    /\ weather_data = EmptyDict
    /\ IterationClassify /\ UNCHANGED calls_today

SpecClassify == Init /\ [][NextClassify]_vars

\* The loop started with any of the secrets.py above
InitCoords == \E secret_values \in SecretsChoices : Start(secret_values)

IterationCoords ==
    \E elapsed \in Elapsed, response \in CoordResponses, ntp \in NtpReplies :
        PrimaryLoop(elapsed, response, ntp)

NextCoords ==
    /\ open_weather_call_count < MaxTallied
    /\ \/ IterationCoords /\ UNCHANGED calls_today
       \/ Midnight /\ UNCHANGED calls_today

SpecCoords == InitCoords /\ [][NextCoords]_vars

(***************************************************************************)
(* The primary loop with ticks_us() as MicroPython has it: a counter that  *)
(* wraps modulo TICKS_PERIOD.  us_tick, last_forecast, last_display and    *)
(* last_ok hold the readings themselves.  The loop is followed from        *)
(* start-up, where the counter reads Epoch, until the counter has wrapped. *)
(***************************************************************************)
\* ticks_us() wraps at 2^30
TICKS_PERIOD == 1073741824

WrapLoop(elapsed, response, ntp) ==
    /\ pc = "loop"
    /\ LET tick == (us_tick + elapsed) % TICKS_PERIOD
           lat == IF Has(secrets, "lat") THEN secrets["lat"] ELSE 0
           lng == IF Has(secrets, "lng") THEN secrets["lng"] ELSE 0
       IN  \E f \in {IF FetchDue(tick, last_forecast, do_show,
                                open_weather_call_count)
                     THEN Requested(tick, response, lat, lng, 2, is_rtc_set,
                                    rtc_day, ntp)
                     ELSE Kept("none")} :
            LET crashed == f.result = "raised"
                due == ~crashed /\ DisplayDue(tick, last_display, f.show)
                d == display_weather(matrix, saved_data, f.wd)
            IN  /\ pc' = IF crashed THEN "crashed" ELSE "loop"
                /\ us_tick' = tick
                /\ fetch_result' = f.result
                /\ weather_data' = f.wd
                /\ item' = f.item
                /\ open_weather_call_count' = f.count
                /\ last_check' = f.check
                /\ last_forecast' = IF f.result = "ok" THEN tick
                                    ELSE last_forecast
                /\ is_rtc_set' = f.rtc_set
                /\ rtc_day' = f.day
                /\ repainted' = due
                /\ saved_data' = IF due THEN d.saved ELSE saved_data
                /\ matrix' = IF due THEN d.shown ELSE matrix
                /\ last_display' = IF due THEN tick ELSE last_display
                /\ do_show' = IF due THEN FALSE ELSE f.show
                /\ last_ok' = IF f.result = "ok" THEN tick ELSE last_ok
                /\ UNCHANGED <<secrets, open_weather, last_call, esp32, frame, pixels,
                               plots, ns_tick, ns_last_ok, calls_today>>

WrapIteration ==
    \E elapsed \in Elapsed, response \in CapResponses, ntp \in NtpReplies :
        WrapLoop(elapsed, response, ntp)

\* the counter has not wrapped yet: Epoch is its lowest reading before that
NextWrap ==
    /\ us_tick >= Epoch
    /\ WrapIteration

SpecWrap == Init /\ [][NextWrap]_vars

\* The setters of the OpenWeather instance called one after another (the
\* loop itself calls none of them)
loop_vars ==
    <<pc, secrets, esp32, frame, pixels, plots, open_weather_call_count, weather_data, saved_data, do_show,
      is_rtc_set, last_check, last_forecast, last_display, us_tick, ns_tick,
      item, matrix, rtc_day, fetch_result, repainted, last_ok, ns_last_ok,
      calls_today>>

Called(op, arg, call) ==
    /\ open_weather' = call.self
    /\ last_call' = [op |-> op, arg |-> arg, returned |-> call.returned]
    /\ UNCHANGED loop_vars

SetLanguage ==
    \E l \in Languages :
        Called("set_language", l, set_language(open_weather, l))

Exclude ==
    \E list \in ExcludeLists :
        Called("exclude", list, exclude(open_weather, list))

NextOptions == SetLanguage \/ Exclude

SpecOptions == Init /\ [][NextOptions]_vars

CircuitSetLanguage ==
    \E l \in Languages :
        Called("set_language", l, circuit_set_language(open_weather, l))

CircuitExclude ==
    \E list \in ExcludeLists :
        Called("exclude", list, circuit_exclude(open_weather, list))

NextCircuitOptions == CircuitSetLanguage \/ CircuitExclude

SpecCircuitOptions == Init /\ [][NextCircuitOptions]_vars

\* The loop taking one forecast after another, each with an item of its own
ItemClouds == Hourly(<<Condition(803, S_Clouds, <<"0","4","d">>)>>, 90)

ItemMist == Hourly(<<Condition(701, S_Mist, <<"5","0","n">>)>>, 17)

ItemBare == [feels_like |-> 0]

ReclassifyItems == {ItemRain, ItemClearNight, ItemClouds, ItemMist, ItemBare}

ReclassifyResponses ==
    {Forecast(<<ItemRain, i>>) : i \in ReclassifyItems}
      \cup {Response(401, TRUE, EmptyDict)}

IterationReclassify ==
    \E elapsed \in Elapsed, response \in ReclassifyResponses,
       ntp \in NtpReplies :
        PrimaryLoop(elapsed, response, ntp)

NextReclassify ==
    /\ open_weather_call_count < MaxTallied
    /\ IterationReclassify /\ UNCHANGED calls_today

SpecReclassify == Init /\ [][NextReclassify]_vars

(***************************************************************************)
(* src/code.py: the CircuitPython primary loop.  A reading of              *)
(* monotonic_ns() is [s, ns], s * 10^9 + ns nanoseconds, and the two       *)
(* periods are whole seconds.                                              *)
(***************************************************************************)
\* DISPLAY_PERIOD_NS = 15 * 1000000000
DISPLAY_PERIOD_S == 15

\* FORECAST_PERIOD_NS = 15 * 60 * 1000000000
FORECAST_PERIOD_S == 15 * 60

\* ns_tick % (period_s * 10^9) == 0
NsDivides(period_s, tick) == tick.ns = 0 /\ tick.s % period_s = 0

\* a > b
NsAfter(a, b) == a.s > b.s \/ (a.s = b.s /\ a.ns > b.ns)

\* tick - since > period_s * 10^9
NsElapsedOver(tick, since, period_s) ==
    \/ tick.s - since.s > period_s
    \/ tick.s - since.s = period_s /\ tick.ns > since.ns

\* readings of monotonic_ns(): on and around the multiples of the periods
NsSamples ==
    {Ns(s, ns) : s \in {0, DISPLAY_PERIOD_S, FORECAST_PERIOD_S,
                        FORECAST_PERIOD_S + 1, 2 * FORECAST_PERIOD_S},
                 ns \in 0..NsSlack} \ {Ns(0, 0)}

\* (ns_tick % FORECAST_PERIOD_NS == 0 or do_show)
\*     and open_weather_call_count < 990
CircuitFetchDue(tick, show, count) ==
    (NsDivides(FORECAST_PERIOD_S, tick) \/ show) /\ count < CALL_CAP

\* ns_tick % DISPLAY_PERIOD_NS == 0 or do_show
CircuitDisplayDue(tick, show) == NsDivides(DISPLAY_PERIOD_S, tick) \/ show

\* One iteration.  When not connected, do_connect() returns once connected
\* and is_rtc_set = set_rtc(), which gets ntp (0: nothing).
CircuitLoop(isconnected, ntp, tick, response) ==
    /\ pc = "loop"
    /\ NsAfter(tick, ns_tick)
    /\ LET rtc_set == IF isconnected THEN is_rtc_set ELSE ntp \in Days
           day == IF ~isconnected /\ ntp \in Days THEN ntp ELSE rtc_day
       IN  \E f \in {IF CircuitFetchDue(tick, do_show, open_weather_call_count)
                     THEN Requested(0, response, secrets["lat"],
                                    secrets["lng"], 1, rtc_set, day, 0)
                     ELSE Kept("none")} :
            LET crashed == f.result = "raised"
                due == ~crashed /\ CircuitDisplayDue(tick, f.show)
                d == display_weather(matrix, saved_data, f.wd)
            IN  /\ pc' = IF crashed THEN "crashed" ELSE "loop"
                /\ ns_tick' = tick
                /\ is_rtc_set' = rtc_set
                /\ rtc_day' = day
                /\ fetch_result' = f.result
                /\ weather_data' = f.wd
                /\ item' = f.item
                /\ open_weather_call_count' = f.count
                /\ last_check' = f.check
                /\ repainted' = due
                /\ saved_data' = IF due THEN d.saved ELSE saved_data
                /\ matrix' = IF due THEN d.shown ELSE matrix
                /\ do_show' = IF due THEN FALSE ELSE f.show
                /\ ns_last_ok' = IF f.result = "ok" THEN tick ELSE ns_last_ok
                /\ UNCHANGED <<secrets, open_weather, last_call, frame, pixels, plots,
                               last_forecast, last_display, us_tick, last_ok,
                               calls_today>>

CircuitIteration ==
    \E isconnected \in BOOLEAN, ntp \in Days \cup {0}, tick \in NsSamples,
       response \in LoopResponses :
        CircuitLoop(isconnected, ntp, tick, response) /\ UNCHANGED esp32

NextCircuit ==
    \/ CircuitIteration
    \/ Midnight /\ UNCHANGED calls_today

SpecCircuit == Init /\ [][NextCircuit]_vars

(***************************************************************************)
(* src/code.py: do_connect and the connection check of the primary loop.   *)
(* The local name e is "esp32" while it is bound to the interface.  The    *)
(* clause "except RuntimeError as e" binds it to the exception and unbinds *)
(* it when the clause is left, so that the next "not e.is_connected"       *)
(* raises.                                                                 *)
(***************************************************************************)
\* most RuntimeErrors connect_AP raises in a row
MaxRetries == 2

\* what the calls of connect_AP do, one after another: RuntimeError up to
\* MaxRetries times, and then the access point accepts
ConnectReplies ==
    {[i \in 1..(k + 1) |-> IF i <= k THEN "RuntimeError" ELSE "connected"] :
        k \in 0..MaxRetries}

\* do_connect(e, s, p) from its while test on; attempts counts the calls of
\* connect_AP
RECURSIVE do_connect(_, _, _, _)
do_connect(e, is_connected, replies, attempts) ==
    IF e # "esp32"
    THEN [raised |-> TRUE, is_connected |-> is_connected,
          attempts |-> attempts]
    ELSE IF is_connected \/ replies = <<>>
    THEN [raised |-> FALSE, is_connected |-> is_connected,
          attempts |-> attempts]
    ELSE IF Head(replies) = "connected"
    THEN do_connect(e, TRUE, Tail(replies), attempts + 1)
    ELSE do_connect("unbound", FALSE, Tail(replies), attempts + 1)

\* One iteration from "if not esp32.is_connected": do_connect when the link
\* is down, and the rest of the iteration unless do_connect raised
ConnectLoop(isconnected, replies, ntp, tick, response) ==
    LET c == do_connect("esp32", FALSE, replies, 0)
    IN  IF isconnected
        THEN /\ CircuitLoop(TRUE, ntp, tick, response)
             /\ esp32' = [is_connected |-> TRUE, attempts |-> 0]
        ELSE IF ~c.raised
        THEN /\ CircuitLoop(FALSE, ntp, tick, response)
             /\ esp32' = [is_connected |-> c.is_connected,
                          attempts |-> c.attempts]
        ELSE /\ pc = "loop"
             /\ pc' = "crashed"
             /\ esp32' = [is_connected |-> c.is_connected,
                          attempts |-> c.attempts]
             /\ fetch_result' = "offline"
             /\ repainted' = FALSE
             /\ UNCHANGED <<secrets, open_weather, last_call, frame, pixels,
                            plots, open_weather_call_count, weather_data,
                            saved_data, do_show, is_rtc_set, last_check,
                            last_forecast, last_display, us_tick, ns_tick,
                            item, matrix, rtc_day, last_ok, ns_last_ok,
                            calls_today>>

ConnectIteration ==
    \E isconnected \in BOOLEAN, replies \in ConnectReplies,
       ntp \in Days \cup {0}, tick \in NsSamples, response \in LoopResponses :
        ConnectLoop(isconnected, replies, ntp, tick, response)

NextConnect ==
    \/ ConnectIteration
    \/ Midnight /\ UNCHANGED calls_today

SpecConnect == Init /\ [][NextConnect]_vars

(***************************************************************************)
(* src/code.py: app_intro, one step for each pass of its loop              *)
(***************************************************************************)
\* most columns already lit when app_intro is called
MaxLitColumns == 2

\* the matrix buffer at the call: nothing lit, or the leftmost columns
IntroBuffers ==
    {{<<x, y>> : x \in 0..(n - 1), y \in 0..7} : n \in 0..MaxLitColumns}

\* the loop body turning at a corner without narrowing the spiral
Turn_SameRing(f) ==
    LET t == IF f.dx = 1 /\ f.x = f.mx
             THEN [f EXCEPT !.dy = 1, !.dx = 0]
             ELSE IF f.dx = -1 /\ f.x = f.nx
             THEN [f EXCEPT !.dy = -1, !.dx = 0]
             ELSE IF f.dy = 1 /\ f.y = f.my
             THEN [f EXCEPT !.dy = 0, !.dx = -1]
             ELSE IF f.dy = -1 /\ f.y = f.ny
             THEN [f EXCEPT !.dx = 1, !.dy = 0]
             ELSE f
    IN  [t EXCEPT !.x = t.x + t.dx, !.y = t.y + t.dy, !.i = t.i + 1]

\* the loop body after the plot: the if/elif chain, x += dx, y += dy, and
\* the next i
Turn(f) ==
    LET t == IF f.dx = 1 /\ f.x = f.mx
             THEN [f EXCEPT !.dy = 1, !.dx = 0, !.mx = f.mx - 1]
             ELSE IF f.dx = -1 /\ f.x = f.nx
             THEN [f EXCEPT !.nx = f.nx + 1, !.dy = -1, !.dx = 0]
             ELSE IF f.dy = 1 /\ f.y = f.my
             THEN [f EXCEPT !.dy = 0, !.dx = -1, !.my = f.my - 1]
             ELSE IF f.dy = -1 /\ f.y = f.ny
             THEN [f EXCEPT !.dx = 1, !.dy = 0, !.ny = f.ny + 1]
             ELSE f
    IN  [t EXCEPT !.x = t.x + t.dx, !.y = t.y + t.dy, !.i = t.i + 1]

\* for i in range(0, 64): matrix.plot(x, y, 1).draw(), then the turn
app_intro ==
    /\ pc = "loop"
    /\ frame.i < 64
    /\ plots' = Append(plots, <<frame.x, frame.y>>)
    /\ pixels' = pixels \cup {<<frame.x, frame.y>>}
    /\ frame' = Turn(frame)
    /\ UNCHANGED <<pc, secrets, open_weather, last_call, esp32,
                   open_weather_call_count, weather_data, saved_data, do_show,
                   is_rtc_set, last_check, last_forecast, last_display,
                   us_tick, ns_tick, item, matrix, rtc_day, fetch_result,
                   repainted, last_ok, ns_last_ok, calls_today>>

InitIntro == \E lit \in IntroBuffers : Boot(GoodSecrets, lit)

SpecIntro == InitIntro /\ [][app_intro]_vars

(***************************************************************************)
(* Properties                                                              *)
(***************************************************************************)
\* the step is an iteration that got past the connection check
Iterated(result) == result \notin {"idle", "offline"}

\* C1: when a fetch forced by do_show fails, the force flag is still set
\* after the iteration (so that the next iteration fetches again)
C1_ForceKeptOnFailure ==
    [][(do_show /\ Failed(fetch_result')) => do_show']_vars

\* C2: once the counter is at the cap and the day has changed, the loop is
\* not held in the suppressed state: an iteration can bring the counter
\* back under the cap (and with it the fetching)
C2_FetchResumesAfterRollover ==
    (open_weather_call_count >= CALL_CAP /\ rtc_day # last_check)
        => ENABLED (IterationCap /\ open_weather_call_count' < CALL_CAP)

\* what the loop does instead: at the cap, the counter stays at the cap
C2_OnceCappedAlwaysCapped ==
    [][open_weather_call_count >= CALL_CAP
        => open_weather_call_count' >= CALL_CAP]_vars

\* C3: no more than CALL_CAP calls of request_forecast, failed ones
\* included, are made between two midnights
C3_DailyCallsCapped == calls_today <= CALL_CAP

\* C4: the counter stays within 0..CALL_CAP, and an iteration that starts
\* with the counter at the cap does not call request_forecast
C4_CapRespected ==
    /\ [](open_weather_call_count \in 0..CALL_CAP)
    /\ [][open_weather_call_count >= CALL_CAP => ~Fetched(fetch_result')]_vars

\* an iteration at the cap found the forecast period elapsed and did not fetch
C4_Witness ==
    /\ open_weather_call_count = CALL_CAP
    /\ fetch_result = "none"
    /\ us_tick - last_forecast > FORECAST_PERIOD_US

\* C5 as claimed: a successful fetch that sees a new day leaves the counter
\* at 1 and the last seen day at the day it saw
C5_RolloverFetchCounted ==
    [][(fetch_result' = "ok" /\ rtc_day' # last_check)
        => (open_weather_call_count' = 1 /\ last_check' = rtc_day')]_vars

\* C5 as amended: a successful fetch that sees a new day leaves the counter
\* at 0 (the fetch itself is not counted) and the last seen day at that day
C5_RolloverFetchZeroes ==
    [][(fetch_result' = "ok" /\ rtc_day' # last_check)
        => (open_weather_call_count' = 0 /\ last_check' = rtc_day')]_vars

\* a successful fetch has just zeroed the counter
C5_Witness ==
    /\ fetch_result = "ok"
    /\ open_weather_call_count = 0
    /\ last_check = rtc_day

\* C6: from the initial state, the first iteration that is connected calls
\* request_forecast and calls display_weather
C6_FirstIterationFetchesAndRepaints ==
    [][(do_show /\ open_weather_call_count = 0 /\ Iterated(fetch_result'))
        => (Fetched(fetch_result') /\ repainted')]_vars

\* C7: after a successful fetch at tick last_ok, with the counter under the
\* cap and do_show clear, an iteration fetches exactly when its tick is
\* above last_ok + FORECAST_PERIOD_US
C7_IntervalRule ==
    [][(/\ Iterated(fetch_result')
        /\ weather_data # EmptyDict
        /\ ~do_show
        /\ open_weather_call_count < CALL_CAP)
        => (Fetched(fetch_result')
              <=> us_tick' > Rebase(last_ok, us_tick) + FORECAST_PERIOD_US)]_vars

\* an iteration exactly FORECAST_PERIOD_US after a successful fetch did not
\* fetch
C7_Witness ==
    /\ fetch_result = "none"
    /\ weather_data # EmptyDict
    /\ us_tick - last_ok = FORECAST_PERIOD_US

\* C8: in src/code.py, an iteration that finds more than FORECAST_PERIOD_NS
\* elapsed since the last successful forecast, with the counter under the
\* cap, requests a forecast
C8_CircuitIntervalRule ==
    [][(/\ Iterated(fetch_result')
        /\ weather_data # EmptyDict
        /\ open_weather_call_count < CALL_CAP
        /\ NsElapsedOver(ns_tick', ns_last_ok, FORECAST_PERIOD_S))
        => Fetched(fetch_result')]_vars

\* the condition id sets off none of the rules on ids
PlainId(id) ==
    /\ id # 771 /\ id # 871
    /\ ~(699 < id /\ id < 770)
    /\ ~(602 < id /\ id < 620)

\* C9: an item whose main label is "Drizzle", with a plain id, is stored
\* with icon key and label both "lightrain"
C9_DrizzleIsLightRain ==
    (/\ fetch_result = "ok"
     /\ HasWeather(item)
     /\ item["weather"][1]["main"] = S_Drizzle
     /\ PlainId(item["weather"][1]["id"]))
    => (weather_data["icon"] = s_lightrain /\ weather_data["cast"] = s_lightrain)

\* C10: the icon key of every classified item is a key of iconset
C10_IconKeyInIconSet ==
    fetch_result = "ok" => weather_data["icon"] \in IconKeys

\* a forecast was taken and its item has a condition entry
Classified == fetch_result = "ok" /\ HasWeather(item)

ItemId == item["weather"][1]["id"]

ItemMain == item["weather"][1]["main"]

\* C11: the classification of a decoded forecast that has an hourly array
\* never raises, and leaves icon, cast and temp in weather_data
C11_ClassificationTotal ==
    /\ fetch_result # "raised"
    /\ fetch_result = "ok"
        => (Has(weather_data, "icon") /\ Has(weather_data, "cast")
              /\ Has(weather_data, "temp"))

\* C12 as claimed: an item whose main label is "Clouds" gets the icon key
\* "partlycloudy" when its id is below 804 and "cloudy" otherwise, for
\* every id
C12_CloudsIconEveryId ==
    (Classified /\ ItemMain = S_Clouds)
    => weather_data["icon"]
         = (IF ItemId < 804 THEN s_partlycloudy ELSE s_cloudy)

\* C12 as amended: the same for the ids that no other rule names (not 771,
\* not 871, not in 700..769, not in 603..619)
C12_CloudsIconPlainId ==
    (Classified /\ ItemMain = S_Clouds /\ PlainId(ItemId))
    => weather_data["icon"]
         = (IF ItemId < 804 THEN s_partlycloudy ELSE s_cloudy)

\* a Clouds item with id 803 was stored as partly cloudy
C12_Witness ==
    /\ Classified /\ ItemMain = S_Clouds /\ ItemId = 803
    /\ weather_data["icon"] = s_partlycloudy

\* C13: every item with an id in 701..769 is stored with the label "Foggy",
\* whatever its main label
C13_FoggyRange ==
    (Classified /\ ItemId \in 701..769) => weather_data["cast"] = S_Foggy

\* an item with id 701 and another main label was stored as Foggy
C13_Witness ==
    /\ Classified /\ ItemId = 701 /\ ItemMain = S_Clouds
    /\ weather_data["cast"] = S_Foggy

\* C14 as claimed: the label is overridden to "Foggy" exactly when
\* 700 < id < 770, so not for id 700
C14_FoggyAbove700 ==
    Classified
    => (weather_data["cast"] = S_Foggy <=> (700 < ItemId /\ ItemId < 770))

\* C14 as amended: the label is overridden to "Foggy" exactly when
\* 699 < id < 770: for id 700 it is, for 699 and 770 it is not
C14_FoggyAbove699 ==
    Classified
    => (weather_data["cast"] = S_Foggy <=> (699 < ItemId /\ ItemId < 770))

\* an item with id 700 was stored as Foggy
C14_Witness ==
    Classified /\ ItemId = 700 /\ weather_data["cast"] = S_Foggy

\* C15: an item with id 771 is stored with the label "Windy" and one with
\* id 871 with the label "Tornado", whatever its main label
C15_WindyAndTornado ==
    Classified
    => /\ ItemId = 771 => weather_data["cast"] = S_Windy
       /\ ItemId = 871 => weather_data["cast"] = S_Tornado

\* a Clouds item with id 771 was stored as Windy
C15_Witness ==
    /\ Classified /\ ItemId = 771 /\ ItemMain = S_Clouds
    /\ weather_data["cast"] = S_Windy

\* C16: an item with an id strictly between 602 and 620 is stored with the
\* label "Sleet" and the icon key "sleet", whatever its main label
C16_SleetRange ==
    (Classified /\ 602 < ItemId /\ ItemId < 620)
    => (weather_data["cast"] = S_Sleet /\ weather_data["icon"] = s_sleet)

\* a Clear item with id 619 was stored as Sleet
C16_Witness ==
    /\ Classified /\ ItemId = 619 /\ ItemMain = S_Clear
    /\ weather_data["cast"] = S_Sleet /\ weather_data["icon"] = s_sleet

\* the last character of the first dot-separated segment of the icon hint
Diurnal == LET part0 == FirstPart(item["weather"][1]["icon"])
           IN  part0[Len(part0)]

\* C17: an item whose label is "Clear" at the diurnal step is stored as
\* "clearnight" / "Clear night" when the last character of the first
\* segment of its icon hint is "n", and as "clearday" / "Clear day" for
\* every other character
C17_ClearByDiurnal ==
    (Classified /\ ItemMain = S_Clear /\ PlainId(ItemId))
    => IF Diurnal = "n"
       THEN /\ weather_data["icon"] = s_clearnight
            /\ weather_data["cast"] = S_Clear \o s__night
       ELSE /\ weather_data["icon"] = s_clearday
            /\ weather_data["cast"] = S_Clear \o s__day

\* a Clear item whose hint ends in neither "n" nor "d" was stored as day
C17_Witness ==
    /\ Classified /\ ItemMain = S_Clear /\ PlainId(ItemId)
    /\ Diurnal = "x"
    /\ weather_data["icon"] = s_clearday

\* C18: what a successful fetch writes into weather_data depends on the
\* item alone: it is what the classification writes into an empty
\* weather_data, and the same item taken twice in a row leaves weather_data
\* as it was
C18_NoHiddenState ==
    [][/\ fetch_result' = "ok"
          => weather_data' = Classify(EmptyDict, item').wd
       /\ (fetch_result = "ok" /\ fetch_result' = "ok" /\ item' = item)
          => weather_data' = weather_data]_vars

\* the second forecast of the day was taken over the first one's
\* weather_data, and its item has no weather entry
C18_Witness ==
    /\ fetch_result = "ok"
    /\ open_weather_call_count = 2
    /\ item = ItemBare
    /\ weather_data["cast"] = S_None

\* C19: no fetch failure ends the loop: whether the HTTP get raises, the
\* status is not 200 or the body cannot be decoded, request_forecast returns
\* a value and the loop goes on
C19_FetchFailuresNonFatal == pc = "loop" /\ fetch_result # "raised"

\* C20: an iteration whose fetch failed (an error result, or a result
\* without data or hourly) leaves last_forecast, the counter, last_check,
\* weather_data and saved_data as they were
C20_FailedFetchKeepsState ==
    [][Failed(fetch_result')
        => /\ last_forecast' = Rebase(last_forecast, us_tick)
           /\ open_weather_call_count' = open_weather_call_count
           /\ last_check' = last_check
           /\ weather_data' = weather_data
           /\ saved_data' = saved_data]_vars

\* a fetch failed while a forecast taken earlier was cached
C20_Witness ==
    /\ Failed(fetch_result)
    /\ weather_data # EmptyDict
    /\ saved_data = <<weather_data>>
    /\ open_weather_call_count = 1

\* what display_weather() puts on the matrix for a DisplayState
Rendered(display_data) ==
    [cast |-> Capitalise(display_data["cast"]), temp |-> display_data["temp"],
     icon |-> IconFor(display_data)]

\* the iteration got to its display step
ReachedDisplay(result) == Iterated(result) /\ result # "raised"

\* C21: an iteration that takes a forecast repaints in the same iteration,
\* the matrix then shows the new weather_data, do_show is false and
\* last_display is the iteration's tick
C21_FetchThenRepaint ==
    [][fetch_result' = "ok"
        => /\ repainted'
           /\ matrix' = Rendered(weather_data')
           /\ saved_data' = <<weather_data'>>
           /\ ~do_show'
           /\ last_display' = us_tick']_vars

\* a second forecast was taken and shown, replacing another one
C21_Witness ==
    /\ fetch_result = "ok" /\ repainted
    /\ open_weather_call_count = 2
    /\ item = ItemMist
    /\ matrix = Rendered(weather_data)
    /\ last_display = us_tick

\* C22: an iteration that gets to its display step repaints exactly when
\* us_tick - last_display > DISPLAY_PERIOD_US or do_show is set at that
\* point; a repaint sets last_display to the tick and clears do_show, and
\* without a repaint last_display keeps its value
C22_RepaintRule ==
    [][ReachedDisplay(fetch_result')
        => LET show == do_show \/ fetch_result' = "ok"
               shown_at == Rebase(last_display, us_tick)
           IN  /\ repainted'
                    <=> (us_tick' - shown_at > DISPLAY_PERIOD_US \/ show)
               /\ repainted' => (last_display' = us_tick' /\ ~do_show')
               /\ ~repainted' => last_display' = shown_at]_vars

\* an iteration exactly DISPLAY_PERIOD_US after a repaint did not repaint
C22_Witness ==
    /\ fetch_result = "none" /\ ~repainted
    /\ us_tick - last_display = DISPLAY_PERIOD_US

\* C23: open_weather_call_count goes down only in an iteration that takes a
\* forecast and finds a day other than last_check; it is then 0, and
\* last_check is that day, so the same day does not reset it again
C23_CounterOnlyResetsOnRollover ==
    [][open_weather_call_count' < open_weather_call_count
        => /\ fetch_result' = "ok"
           /\ rtc_day' # last_check
           /\ open_weather_call_count' = 0
           /\ last_check' = rtc_day']_vars

\* a forecast taken on a new day zeroed the counter, after others had been
\* cached and shown
C23_Witness ==
    /\ fetch_result = "ok"
    /\ open_weather_call_count = 0
    /\ last_check = rtc_day
    /\ saved_data # None
    /\ is_rtc_set

\* C24: a repaint shows the DisplayState of the last forecast that was
\* taken, also when fetches have failed since; before any forecast was
\* taken it leaves the matrix alone and the loop goes on
C24_RepaintShowsLastForecast ==
    [][repainted'
        => IF item' = None
           THEN /\ matrix' = matrix /\ matrix' = Blank
                /\ saved_data' = None
                /\ pc' = "loop"
           ELSE matrix' = Rendered(Classify(EmptyDict, item').wd)]_vars

\* a repaint after a failed fetch showed the forecast cached before it
C24_Witness ==
    /\ fetch_result = "err" /\ repainted
    /\ item = ItemClouds
    /\ matrix = Rendered(weather_data)

\* the first iteration's fetch failed and its repaint drew nothing
C24_WitnessNoData ==
    /\ fetch_result = "err" /\ repainted
    /\ weather_data = EmptyDict /\ matrix = Blank

\* C25: an item that no rule names (a plain id, a main label other than
\* Clouds, Drizzle and Clear) is stored with icon key = its main label in
\* lower case, label = its main label and temp = its feels_like; id 500,
\* "Rain", 14.2 (here in tenths) gives "rain", "Rain", 14.2
C25_PlainItem ==
    (/\ Classified
     /\ PlainId(ItemId)
     /\ ItemMain \notin {S_Clouds, S_Drizzle, S_Clear})
    => /\ weather_data["icon"] = Lower(ItemMain)
       /\ weather_data["cast"] = ItemMain
       /\ weather_data["temp"] = item["feels_like"]
       /\ (ItemId = 500 /\ ItemMain = S_Rain /\ item["feels_like"] = 142)
          => weather_data = [icon |-> s_rain, cast |-> S_Rain, temp |-> 142]

\* the item 500 / "Rain" / 14.2 was stored as "rain" / "Rain" / 14.2
C25_Witness ==
    /\ Classified
    /\ ItemId = 500 /\ ItemMain = S_Rain /\ item["feels_like"] = 142
    /\ weather_data = [icon |-> s_rain, cast |-> S_Rain, temp |-> 142]

\* lat and lng as the loop passes them to request_forecast
SecretLat == IF Has(secrets, "lat") THEN secrets["lat"] ELSE 0

SecretLng == IF Has(secrets, "lng") THEN secrets["lng"] ELSE 0

\* C26: request_forecast returns a dictionary with a data key or an err
\* key: err for invalid co-ordinates, a status other than 200 or a body
\* that cannot be decoded, data otherwise
C26_DataOrErr ==
    Fetched(fetch_result)
    => /\ fetch_result \in {"err", "no_hourly", "ok"}
       /\ ~_check_coords(SecretLng, SecretLat) => fetch_result = "err"

\* C27: set_language(l) returns the instance, and lang is then l in lower
\* case when that is a supported code and "en" otherwise
C27_SetLanguage ==
    last_call.op = "set_language"
    => /\ last_call.returned = "self"
       /\ open_weather.lang
            = (IF Lower(last_call.arg) \in lang_types
               THEN Lower(last_call.arg) ELSE s_en)

\* the items of a list that exclude() supports, in the order of the list
Supported(list) ==
    SelectSeq(list, LAMBDA i : \E n \in DOMAIN exclude_types :
                                  i = exclude_types[n])

\* C28: exclude(list) returns the instance; with a supported item in the
\* list, excludes is then the supported items in the order of the list with
\* commas between them and none at the end, and request URLs carry it;
\* with none, excludes is left as it was
C28_Exclude ==
    [][last_call'.op = "exclude"
        => /\ last_call'.returned = "self"
           /\ IF Supported(last_call'.arg) = <<>>
              THEN open_weather'.excludes = open_weather.excludes
              ELSE /\ open_weather'.excludes
                        = DropLast(WithCommas(Supported(last_call'.arg)))
                   /\ _add_options(open_weather').exclude
                        = <<open_weather'.excludes>>]_vars

\* C29: every iteration that gets to its display step ends with do_show
\* false, whatever its fetch did; do_show is true at the top of an
\* iteration only while no iteration has got that far
C29_ForceFlagClearedByIteration ==
    /\ [][ReachedDisplay(fetch_result') => ~do_show']_vars
    /\ []((do_show /\ pc = "loop")
            => (us_tick = Epoch /\ weather_data = EmptyDict
                  /\ saved_data = None))

\* the first iteration's fetch failed and do_show is false after it
C29_Witness ==
    /\ fetch_result \in {"err", "no_hourly"}
    /\ open_weather_call_count = 0 /\ item = None
    /\ ~do_show

\* microseconds between the readings of two iterations in a row, which is
\* less than TICKS_PERIOD
RealElapsed(before, after) == (after - before) % TICKS_PERIOD

\* C30: with a counter that wraps modulo 2^30, an iteration that comes more
\* than FORECAST_PERIOD_US after the iteration that took the last forecast
\* fetches (the counter being under the cap), and one that comes more than
\* DISPLAY_PERIOD_US after the iteration that repainted last repaints
C30_PeriodsSurviveWrap ==
    [][ReachedDisplay(fetch_result')
        => /\ (/\ fetch_result = "ok"
               /\ open_weather_call_count < CALL_CAP
               /\ RealElapsed(us_tick, us_tick') > FORECAST_PERIOD_US)
              => Fetched(fetch_result')
           /\ (repainted /\ RealElapsed(us_tick, us_tick') > DISPLAY_PERIOD_US)
              => repainted']_vars


\* C33: a repaint never fails on the icon lookup: the glyph drawn is the
\* table's entry for the icon key of the forecast shown when the key is in
\* the table, and the glyph of "none" (12) when it is not
C33_IconLookupTotal ==
    (repainted /\ saved_data # None)
    => LET key == saved_data[1]["icon"]
       IN  /\ pc = "loop"
           /\ matrix.icon \in 0..(Len(IconNames) - 1)
           /\ IF \E i \in 1..Len(IconNames) : IconNames[i] = key
              THEN IconNames[matrix.icon + 1] = key
              ELSE IconNames[matrix.icon + 1] = s_none /\ matrix.icon = 12

\* a forecast whose icon key ("mist") is not in the table was drawn with
\* the glyph of "none"
C33_Witness ==
    /\ repainted /\ fetch_result = "ok"
    /\ saved_data # None
    /\ saved_data[1]["icon"] = Lower(S_Mist)
    /\ matrix.icon = 12

\* C31: do_connect does not raise and returns only once the ESP32 reports
\* is_connected, however many times connect_AP raised RuntimeError before:
\* an iteration that calls it (attempts > 0) gets past it, with the link up
C31_ConnectRetriesUntilConnected ==
    [][(fetch_result' # "idle" /\ esp32'.attempts > 0)
        => /\ esp32'.is_connected
           /\ fetch_result' # "offline"]_vars

\* C32: app_intro plots only coordinates within 0..7, no pixel twice, one
\* pixel for each pass of its loop, starting at (7, 0) and going on to a
\* neighbouring pixel that is no nearer to the edge (an outside-in spiral);
\* when it returns, after 64 passes, all 64 pixels have been plotted and
\* are lit
C32_IntroSpiral ==
    LET Pixels == (0..7) \X (0..7)
        Least(a, b) == IF a < b THEN a ELSE b
        Depth(p) == Least(Least(p[1], 7 - p[1]), Least(p[2], 7 - p[2]))
        Apart(p, q) == (IF p[1] > q[1] THEN p[1] - q[1] ELSE q[1] - p[1])
                       + (IF p[2] > q[2] THEN p[2] - q[2] ELSE q[2] - p[2])
    IN  /\ Len(plots) = frame.i /\ frame.i <= 64
        /\ \A k \in 1..Len(plots) : plots[k] \in Pixels
        /\ \A j, k \in 1..Len(plots) : plots[j] = plots[k] => j = k
        /\ Len(plots) > 0 => plots[1] = <<7, 0>>
        /\ \A k \in 1..(Len(plots) - 1) :
              /\ Apart(plots[k], plots[k + 1]) = 1
              /\ Depth(plots[k]) <= Depth(plots[k + 1])
        /\ {plots[k] : k \in 1..Len(plots)} \subseteq pixels
        /\ frame.i = 64 => /\ {plots[k] : k \in 1..64} = Pixels
                           /\ pixels = Pixels

\* app_intro returned: it plotted 64 pixels, the eighth in the corner
\* (7, 7) and the last one in the middle of the matrix, and all are lit
C32_Witness ==
    /\ frame.i = 64
    /\ Len(plots) = 64
    /\ plots[8] = <<7, 7>>
    /\ plots[64] \in (3..4) \X (3..4)
    /\ pixels = (0..7) \X (0..7)

====
